---- MODULE Spec2Model ----
(***************************************************************************)
(* A model of outlier.py: the function outlier_filter, which replaces the  *)
(* cells of a table whose column z-score exceeds a threshold by the column *)
(* mean, and the script body that reads out.txt, filters it and writes it  *)
(* back.                                                                   *)
(*                                                                         *)
(* Numbers.  The program computes mean, standard deviation and z-score in  *)
(* IEEE double precision.  The model computes the same quantities exactly, *)
(* as quotients of integers: the mean of a column of n values with sum S   *)
(* is S / n, its deviations are (n*x - S) / n, its variance is             *)
(* SS / n^3 with SS the sum of the squares (n*x - S)^2, and                *)
(* z > p/q is decided by n * (n*x - S)^2 * q^2 > p^2 * SS.  A threshold is *)
(* a pair <<p, q>> standing for p / q.  The exact comparison and the       *)
(* double-precision one agree whenever the exact z-score differs from the  *)
(* threshold (for the integers of the instances checked here the two are   *)
(* far apart compared with the rounding error); where the two are exactly  *)
(* equal and the mean is not a binary fraction, rounding in the            *)
(* double-precision quotient can fall on either side (the column           *)
(* -3,-3,-3,-3,-2 at threshold 1/2 is such a case, and lies outside the    *)
(* instances checked).  The z-score of the properties below is the exact   *)
(* one.                                                                    *)
(***************************************************************************)
EXTENDS Integers, Sequences, FiniteSets, TLC

\* ---- bounds of the checked instances ----
MaxRows == 4
MaxCols == 2
MaxCells == 4
MaxAbs == 2
MaxLines == 3
MaxTokens == 2
MaxFileTokens == 3

VARIABLES
    table,        \* harness: the argument passed to outlier_filter
    threshold,    \* harness: the threshold argument, <<p, q>> for p / q
    result,       \* harness: outlier_filter(table, threshold)
    result2,      \* harness: outlier_filter(result, threshold)
    step,         \* harness: "input", "filtered", "refiltered"
    pc,           \* script: the line of __main__ about to run
    exists,       \* script: whether out.txt exists
    file,         \* script: contents of out.txt, a sequence of lines of tokens
    file0,        \* script: contents of out.txt when the script started
    lines,        \* script: f.readlines()
    num_case,     \* script: len(lines[0].split())
    datas,        \* script: the list of parsed rows, then the filtered table
    k,            \* script: number of lines consumed by the parsing loop
    err,          \* script: the exception that ended the script, or "none"
    stdout        \* the lines printed so far

harnessVars == <<table, threshold, result, result2, step>>
mainVars == <<pc, exists, file, file0, lines, num_case, datas, k, err>>
vars == <<table, threshold, result, result2, step,
          pc, exists, file, file0, lines, num_case, datas, k, err, stdout>>

\* ---- arithmetic helpers ----
RECURSIVE SeqSum(_)
SeqSum(s) == IF s = <<>> THEN 0 ELSE Head(s) + SeqSum(Tail(s))

\* Col without axis = 0: the values of the whole table
ColFlat(d, j) ==
    [c \in 1..(Len(d) * Len(d[1])) |->
        d[((c - 1) \div Len(d[1])) + 1][((c - 1) % Len(d[1])) + 1]]

\* datas[:, j]: the values axis = 0 runs over for column j
Col(d, j) == [i \in 1..Len(d) |-> d[i][j]]

\* ZGreater with >= for >
ZGreaterEq(col, x, thr) ==
    LET n == Len(col)
        S == SeqSum(col)
        SS == SeqSum([i \in 1..n |-> (n * col[i] - S) * (n * col[i] - S)])
        d == n * x - S
    IN  IF SS = 0 THEN FALSE
        ELSE IF thr[1] < 0 THEN TRUE
        ELSE n * d * d * thr[2] * thr[2] >= thr[1] * thr[1] * SS

\* ZGreater dividing by the variance, not by the standard deviation
ZGreaterVar(col, x, thr) ==
    LET n == Len(col)
        S == SeqSum(col)
        SS == SeqSum([i \in 1..n |-> (n * col[i] - S) * (n * col[i] - S)])
        d == IF n * x - S < 0 THEN S - n * x ELSE n * x - S
    IN  IF SS = 0 THEN FALSE
        ELSE IF thr[1] < 0 THEN TRUE
        ELSE d * n * n * thr[2] > thr[1] * SS

\* ZGreater without the division by the standard deviation
ZGreaterNoStd(col, x, thr) ==
    LET n == Len(col)
        S == SeqSum(col)
        d == IF n * x - S < 0 THEN S - n * x ELSE n * x - S
    IN  d * thr[2] > thr[1] * n

\* z[i, j] > threshold, for the value x of column col.  With n values of sum
\* S, x - mean = (n*x - S) / n and std^2 = SS / n^3, SS the sum of the squares
\* (n*v - S)^2 over the column.  A column of equal values has std = 0 and
\* z = 0 / 0 = nan, and nan > threshold is False.
ZGreater(col, x, thr) ==
    LET n == Len(col)
        S == SeqSum(col)
        SS == SeqSum([i \in 1..n |-> (n * col[i] - S) * (n * col[i] - S)])
        d == n * x - S
    IN  IF SS = 0 THEN FALSE
        ELSE IF thr[1] < 0 THEN TRUE
        ELSE n * d * d * thr[2] * thr[2] > thr[1] * thr[1] * SS

\* CastInt rounding down
CastFloor(S, n) == S \div n

\* CastInt rounding to the nearest integer, halves up
CastRound(S, n) == (2 * S + n) \div (2 * n)

\* CastInt of the column sum, the division by n forgotten
CastSum(S, n) == S

\* datas[i, j] = m[j]: a double stored into an int64 cell is truncated
\* towards zero.  The mean is S / n.
CastInt(S, n) == IF S >= 0 THEN S \div n ELSE -((-S) \div n)

\* ---- text: tokens are sequences of one-character strings ----
DigitChars == <<"0", "1", "2", "3", "4", "5", "6", "7", "8", "9">>

IsDigit(c) == \E v \in 1..10 : DigitChars[v] = c

DigitVal(c) == (CHOOSE v \in 1..10 : DigitChars[v] = c) - 1

RECURSIVE DigitsVal(_)
DigitsVal(s) ==
    IF s = <<>> THEN 0
    ELSE 10 * DigitsVal(SubSeq(s, 1, Len(s) - 1)) + DigitVal(s[Len(s)])

\* the digits of int(e): e without its optional sign
Unsigned(e) == IF e # <<>> /\ Head(e) \in {"+", "-"} THEN Tail(e) ELSE e

\* int(e) returns a value: an optional sign, then one digit or more
IsIntLiteral(e) ==
    /\ Unsigned(e) # <<>>
    /\ \A i \in 1..Len(Unsigned(e)) : IsDigit(Unsigned(e)[i])

\* int(e), for e an integer literal
ParseInt(e) ==
    IF Head(e) = "-" THEN -DigitsVal(Unsigned(e)) ELSE DigitsVal(Unsigned(e))

RECURSIVE Digits(_)
Digits(n) ==
    IF n < 10 THEN <<DigitChars[n + 1]>>
    ELSE Digits(n \div 10) \o <<DigitChars[(n % 10) + 1]>>

\* '%d' % n
FormatD(n) == IF n < 0 THEN <<"-">> \o Digits(-n) ELSE Digits(n)

\* "{:.0f}".format(S / n): the sign of the mean, then its magnitude rounded
\* to the nearest integer, ties to even (so -2/5 prints as -0)
FormatMean(S, n) ==
    LET a == IF S < 0 THEN -S ELSE S
        f == a \div n
        r == 2 * (a - f * n)
        m == IF r < n THEN f
             ELSE IF r > n THEN f + 1
             ELSE IF f % 2 = 0 THEN f ELSE f + 1
    IN  (IF S < 0 THEN <<"-">> ELSE <<>>) \o Digits(m)

NumCols(d) == IF d = <<>> THEN 0 ELSE Len(d[1])

Printed(d) == [j \in 1..NumCols(d) |-> FormatMean(SeqSum(Col(d, j)), Len(d))]

\* outlier_filter dropping the rows that hold an outlier
outlier_filter_drop(d, thr) ==
    SelectSeq(d, LAMBDA row :
        \A j \in 1..Len(row) : ~ZGreater(Col(d, j), row[j], thr))

outlier_filter(d, thr) ==
    [i \in 1..Len(d) |->
        [j \in 1..Len(d[i]) |->
            IF ZGreater(Col(d, j), d[i][j], thr)
            THEN CastInt(SeqSum(Col(d, j)), Len(d))
            ELSE d[i][j]]]

\* ---- harness: outlier_filter applied to a table, then to its result ----
Vals == (-MaxAbs)..MaxAbs

Shapes == {rc \in (1..MaxRows) \X (1..MaxCols) : rc[1] * rc[2] <= MaxCells}

Example1 == << <<1, 100>>, <<2, 102>>, <<3, 98>>, <<100, 101>> >>

InputTables ==
    UNION {[1..rc[1] -> [1..rc[2] -> Vals]] : rc \in Shapes} \cup {Example1}

\* -1, 0, 1/2, 1 (the default), 3/2 and 2
Thresholds == {<<-1, 1>>, <<0, 1>>, <<1, 2>>, <<1, 1>>, <<3, 2>>, <<2, 1>>}

MainIdle ==
    /\ pc = "idle" /\ exists = FALSE /\ file = <<>> /\ file0 = <<>>
    /\ lines = <<>> /\ num_case = 0 /\ datas = <<>> /\ k = 0 /\ err = "none"

Init ==
    /\ table \in InputTables
    /\ threshold \in Thresholds
    /\ result = <<>> /\ result2 = <<>>
    /\ step = "input"
    /\ stdout = <<>>
    /\ MainIdle

Filter ==
    /\ step = "input"
    /\ result' = outlier_filter(table, threshold)
    /\ stdout' = stdout \o Printed(table)
    /\ step' = "filtered"
    /\ UNCHANGED <<table, threshold, result2>>
    /\ UNCHANGED mainVars

FilterAgain ==
    /\ step = "filtered"
    /\ result2' = outlier_filter(result, threshold)
    /\ stdout' = stdout \o Printed(result)
    /\ step' = "refiltered"
    /\ UNCHANGED <<table, threshold, result>>
    /\ UNCHANGED mainVars

\* ---- the script: open, read, parse, filter, save, close ----
Tokens == { <<"1">>, <<"-", "2">>, <<"0", "2">>, <<"x">> }

FileShapes ==
    {sh \in UNION {[1..n -> 0..MaxTokens] : n \in 0..MaxLines} :
        SeqSum(sh) <= MaxFileTokens}

RECURSIVE FilesOfShape(_)
FilesOfShape(sh) ==
    IF sh = <<>> THEN {<<>>}
    ELSE {<<l>> \o rest : l \in [1..Head(sh) -> Tokens],
                          rest \in FilesOfShape(Tail(sh))}

InputFiles == UNION {FilesOfShape(sh) : sh \in FileShapes}

\* threshold = 1
DefaultThreshold == <<1, 1>>

\* np.array(datas) is a two-dimensional array: every row has the length of
\* the first.  (A list of rows of different lengths makes np.array raise
\* ValueError, or, in older releases of numpy, return an array of lists,
\* whose mean raises TypeError.)
Rectangular(d) == \A i \in 1..Len(d) : Len(d[i]) = Len(d[1])

HarnessIdle ==
    /\ table = <<>> /\ threshold = DefaultThreshold
    /\ result = <<>> /\ result2 = <<>> /\ step = "idle"

InitMain ==
    /\ HarnessIdle
    /\ \/ exists = FALSE /\ file = <<>>
       \/ exists = TRUE /\ file \in InputFiles
    /\ file0 = file
    /\ pc = "open"
    /\ lines = <<>> /\ num_case = 0 /\ datas = <<>> /\ k = 0
    /\ err = "none"
    /\ stdout = <<>>

\* Open with mode 'w+', which empties the file
OpenTruncating ==
    /\ pc = "open"
    /\ pc' = "readlines"
    /\ file' = <<>>
    /\ exists' = TRUE
    /\ UNCHANGED <<file0, lines, num_case, datas, k, err, stdout>>
    /\ UNCHANGED harnessVars

\* f = open('out.txt', 'r+')
Open ==
    /\ pc = "open"
    /\ IF exists
       THEN pc' = "readlines" /\ err' = err
       ELSE pc' = "failed" /\ err' = "FileNotFoundError"
    /\ UNCHANGED <<exists, file, file0, lines, num_case, datas, k, stdout>>
    /\ UNCHANGED harnessVars

\* lines = f.readlines()
ReadLines ==
    /\ pc = "readlines"
    /\ lines' = file
    /\ pc' = "num_case"
    /\ UNCHANGED <<exists, file, file0, num_case, datas, k, err, stdout>>
    /\ UNCHANGED harnessVars

\* num_case = len(lines[0].split()); datas = []
NumCase ==
    /\ pc = "num_case"
    /\ IF lines = <<>>
       THEN pc' = "failed" /\ err' = "IndexError" /\ num_case' = num_case
       ELSE pc' = "parse" /\ err' = err /\ num_case' = Len(lines[1])
    /\ datas' = <<>>
    /\ k' = 0
    /\ UNCHANGED <<exists, file, file0, lines, stdout>>
    /\ UNCHANGED harnessVars

\* one iteration of: for line in lines: datas.append([int(e) for e in line.split()])
ParseLine ==
    /\ pc = "parse"
    /\ k < Len(lines)
    /\ LET line == lines[k + 1] IN
       IF \A t \in 1..Len(line) : IsIntLiteral(line[t])
       THEN /\ datas' = Append(datas, [t \in 1..Len(line) |-> ParseInt(line[t])])
            /\ k' = k + 1
            /\ pc' = IF k + 1 = Len(lines) THEN "filter" ELSE "parse"
            /\ err' = err
       ELSE /\ pc' = "failed" /\ err' = "ValueError"
            /\ UNCHANGED <<datas, k>>
    /\ UNCHANGED <<exists, file, file0, lines, num_case, stdout>>
    /\ UNCHANGED harnessVars

\* datas = outlier_filter(datas)
CallFilter ==
    /\ pc = "filter"
    /\ IF Rectangular(datas)
       THEN /\ datas' = outlier_filter(datas, DefaultThreshold)
            /\ stdout' = stdout \o Printed(datas)
            /\ pc' = "savetxt"
            /\ err' = err
       ELSE /\ pc' = "failed"
            /\ err' \in {"ValueError", "TypeError"}
            /\ UNCHANGED <<datas, stdout>>
    /\ UNCHANGED <<exists, file, file0, lines, num_case, k>>
    /\ UNCHANGED harnessVars

\* np.savetxt('out.txt', datas, fmt='%d')
SaveTxt ==
    /\ pc = "savetxt"
    /\ file' = [i \in 1..Len(datas) |->
                  [j \in 1..Len(datas[i]) |-> FormatD(datas[i][j])]]
    /\ pc' = "close"
    /\ UNCHANGED <<exists, file0, lines, num_case, datas, k, err, stdout>>
    /\ UNCHANGED harnessVars

\* f.close()
Close ==
    /\ pc = "close"
    /\ pc' = "done"
    /\ UNCHANGED <<exists, file, file0, lines, num_case, datas, k, err, stdout>>
    /\ UNCHANGED harnessVars

NextMain ==
    Open \/ ReadLines \/ NumCase \/ ParseLine \/ CallFilter \/ SaveTxt \/ Close

SpecMain == InitMain /\ [][NextMain]_vars

Next == Filter \/ FilterAgain

Spec == Init /\ [][Next]_vars

\* ---- properties ----
Filtered == step \in {"filtered", "refiltered"}

Rows == 1..Len(table)
Cols == 1..Len(table[1])

\* column j of the input: its length, its sum, and n^2 times its population
\* variance, n * (sum of squares) - (sum)^2
ColN(j) == Len(table)
ColS(j) == SeqSum([i \in Rows |-> table[i][j]])
ColV(j) == ColN(j) * SeqSum([i \in Rows |-> table[i][j] * table[i][j]])
               - ColS(j) * ColS(j)

\* (n * |x - mean|)^2 for cell (i, j) of the input
CellD2(i, j) ==
    (ColN(j) * table[i][j] - ColS(j)) * (ColN(j) * table[i][j] - ColS(j))

\* z <= threshold, z = threshold, z > threshold for cell (i, j) of the
\* input, the column having std > 0 and the threshold p / q being >= 0:
\* z^2 = CellD2 / ColV
ZLeq(i, j) ==
    threshold[2] * threshold[2] * CellD2(i, j)
        <= threshold[1] * threshold[1] * ColV(j)
ZEq(i, j) ==
    threshold[2] * threshold[2] * CellD2(i, j)
        = threshold[1] * threshold[1] * ColV(j)
ZGt(i, j) ==
    threshold[2] * threshold[2] * CellD2(i, j)
        > threshold[1] * threshold[1] * ColV(j)

\* m is the mean of input column j with its fraction cut off
IsTruncMean(m, j) ==
    IF ColS(j) >= 0
    THEN m * ColN(j) <= ColS(j) /\ ColS(j) < (m + 1) * ColN(j)
    ELSE m * ColN(j) >= ColS(j) /\ ColS(j) > (m - 1) * ColN(j)

C2_OutlierReplaced ==
    (Filtered /\ threshold[1] > 0) =>
        \A i \in Rows : \A j \in Cols :
            (ColV(j) > 0 /\ ZGt(i, j)) => IsTruncMean(result[i][j], j)

\* an outlier of a column with a negative mean that is not an integer
C2_Witness ==
    /\ step = "filtered" /\ threshold[1] > 0
    /\ \E i \in Rows : \E j \in Cols :
          /\ ColV(j) > 0 /\ ZGt(i, j)
          /\ ColS(j) < 0 /\ ColS(j) % ColN(j) # 0
          /\ result[i][j] # table[i][j]

\* C3: a column whose input values are all equal is returned unchanged,
\* whatever the threshold; a table of one row is returned unchanged.
C3_ZeroVarianceUnchanged ==
    Filtered =>
        /\ \A j \in Cols :
              (\A i \in Rows : table[i][j] = table[1][j])
                  => \A i \in Rows : result[i][j] = table[i][j]
        /\ Len(table) = 1 => result = table

\* a negative threshold, a constant column kept and another column changed
C3_Witness ==
    /\ step = "filtered" /\ threshold[1] < 0
    /\ Len(table) > 1
    /\ \E j \in Cols : \E c \in Cols :
          /\ \A i \in Rows : table[i][j] = table[1][j]
          /\ \A i \in Rows : result[i][j] = table[i][j]
          /\ \E i \in Rows : result[i][c] # table[i][c]

C5_ShapePreserved ==
    Filtered =>
        /\ Len(result) = Len(table)
        /\ \A i \in 1..Len(result) : Len(result[i]) = Len(table[i])

\* a table of two rows and two columns of which a cell was replaced
C5_Witness ==
    /\ step = "filtered"
    /\ Len(table) = 2 /\ Len(table[1]) = 2
    /\ result # table
    /\ Len(result) = 2 /\ Len(result[1]) = 2 /\ Len(result[2]) = 2

\* C6: a table that is empty or not rectangular never reaches the call of
\* outlier_filter.
C6_MalformedRejectedAtLoad ==
    pc = "filter" =>
        /\ datas # <<>>
        /\ Len(datas[1]) > 0
        /\ \A i \in 1..Len(datas) : Len(datas[i]) = Len(datas[1])

\* C7: out.txt is written only after reading, parsing and outlier_filter
\* have succeeded; a script that failed left out.txt as it was.
C7_NoPartialWrite ==
    /\ pc \in {"open", "readlines", "num_case", "parse", "filter", "savetxt",
                "failed"} => file = file0
    /\ (err # "none") <=> (pc = "failed")

\* the script failed inside outlier_filter, every line parsed, out.txt not empty
C7_Witness ==
    /\ pc = "failed" /\ err \in {"ValueError", "TypeError"}
    /\ lines # <<>> /\ Len(datas) = Len(lines)
    /\ file = file0 /\ file # <<>>

\* the column -2, -2, 2: filtered at threshold 1 it is -2, -2, 0, and
\* filtered again -2, -2, -1
IdemExample == << <<-2>>, <<-2>>, <<2>> >>

\* C8: outlier_filter is not idempotent: applied to the result of filtering
\* the column -2, -2, 2 at threshold 1 it changes that result again.
C8_NotIdempotent ==
    (step = "refiltered" /\ table = IdemExample /\ threshold = <<1, 1>>) =>
        /\ result # table
        /\ result2 # result

\* a second application that changed the result of the first
C8_Witness ==
    /\ step = "refiltered" /\ threshold[1] > 0
    /\ result # table
    /\ result2 # result
    /\ \E i \in Rows : \E j \in Cols :
          result[i][j] # table[i][j] /\ result2[i][j] # result[i][j]

\* C9, as stated: for the rows 1 100, 2 102, 3 98, 100 101 at threshold 1
\* the cell 100 of column 0 is replaced by the rounded mean of column 0 and
\* column 1 is unchanged.
C9_ExampleAsStated ==
    (Filtered /\ table = Example1 /\ threshold = <<1, 1>>) =>
        /\ result[4][1] \in {26, 27}
        /\ \A i \in 1..3 : result[i][1] = table[i][1]
        /\ \A i \in 1..4 : result[i][2] = table[i][2]

\* C9, amended: the cell 100 of column 0 becomes 26 (the mean 26.5 cut
\* off), and in column 1 the cells 102 and 98 become 100 (the mean 100.25
\* cut off); the other cells are unchanged.
C9_Example ==
    (Filtered /\ table = Example1 /\ threshold = <<1, 1>>) =>
        result = << <<1, 100>>, <<2, 100>>, <<3, 100>>, <<26, 101>> >>

C9_Witness ==
    /\ step = "filtered" /\ table = Example1 /\ threshold = <<1, 1>>
    /\ result[4][1] # 100 /\ result[2][2] # 102 /\ result[3][2] # 98

\* C10: every cell of column j of the returned table lies between the
\* smallest and the largest value of input column j.
C10_WithinColumnRange ==
    Filtered =>
        \A i \in Rows : \A j \in Cols :
            /\ \E a \in Rows : table[a][j] <= result[i][j]
            /\ \E b \in Rows : result[i][j] <= table[b][j]

\* a replaced cell of a column whose mean is negative and not an integer
C10_Witness ==
    /\ step = "filtered"
    /\ \E i \in Rows : \E j \in Cols :
          /\ result[i][j] # table[i][j]
          /\ ColS(j) < 0 /\ ColS(j) % ColN(j) # 0
          /\ \E a \in Rows : table[a][j] < 0

====
